---- MODULE Spec2Model ----
(***************************************************************************)
(* A model of the Markdown-to-HTML core of the static site generator:      *)
(* block segmenting and classification (block_markdown_to_html.py), the    *)
(* inline tokenizer (inline_markdown_to_html.py) and the node renderer     *)
(* (html_parent_leaf_node.py).                                             *)
(*                                                                         *)
(* A Python str is a sequence of one-character strings.  An optional       *)
(* value (Python None or a value) is a sequence of length 0 or 1.          *)
(***************************************************************************)
EXTENDS Integers, Sequences, FiniteSets, TLC

VARIABLES
    pc,                 \* position of the running call
    markdown_document,  \* argument of markdown_to_html_node
    markdown_blocks,    \* local of markdown_to_html_node
    children,           \* local of markdown_to_html_node
    html_node,          \* returned node (optional)
    html,               \* returned rendering (optional)
    markdown_block,     \* argument of block_to_html_node
    block_type,         \* local of block_to_html_node
    text,               \* argument of text_to_textnodes
    old_nodes,          \* argument of the last inline pass
    nodes,              \* result of the last inline pass
    textnode,           \* argument of text_node_to_html_node (optional)
    title,              \* result of extract_title (optional)
    invocations,        \* frames of the concurrent calls, by invocation
    error               \* message of the raised ValueError, "" if none

vars == <<pc, invocations, markdown_document, markdown_blocks, children, html_node, html,
          markdown_block, block_type, text, old_nodes, nodes, textnode, title,
          error>>

-----------------------------------------------------------------------------
(* Optional values *)

None == <<>>

Some(x) == <<x>>

Get(o) == o[1]

-----------------------------------------------------------------------------
(* Python str operations, on sequences of characters *)

NL == "\n"

TAB == "\t"

\* The backtick character (U+0060), which a TLA+ string literal cannot hold.
BT == "BACKTICK"

\* Characters str.strip() removes among those the model uses.
Whitespace == {" ", NL, TAB}

Min(a, b) == IF a < b THEN a ELSE b

\* s[a:], 0-based start
SliceFrom(s, a) == SubSeq(s, Min(a, Len(s)) + 1, Len(s))

\* s[a:b], 0-based, b exclusive, both non-negative
Slice(s, a, b) == SubSeq(s, a + 1, Min(b, Len(s)))

\* s[a:-k], k > 0
SliceFromDropLast(s, a, k) == SubSeq(s, a + 1, Len(s) - k)

startswith(s, p) == Len(s) >= Len(p) /\ SubSeq(s, 1, Len(p)) = p

endswith(s, p) == Len(s) >= Len(p) /\ SubSeq(s, Len(s) - Len(p) + 1, Len(s)) = p

\* s.find(sub, start): 0-based index of the first occurrence at or after
\* start, -1 if there is none.
find(s, sub, start) ==
    LET hits == {i \in start..(Len(s) - Len(sub)) :
                     SubSeq(s, i + 1, i + Len(sub)) = sub}
    IN IF hits = {} THEN -1
       ELSE CHOOSE i \in hits : \A j \in hits : i <= j

RECURSIVE split(_, _)
\* s.split(sep), sep non-empty: leftmost, non-overlapping
split(s, sep) ==
    LET i == find(s, sep, 0)
    IN IF i = -1 THEN <<s>>
       ELSE <<Slice(s, 0, i)>> \o split(SliceFrom(s, i + Len(sep)), sep)

\* s.split(sep, 1)
split1(s, sep) ==
    LET i == find(s, sep, 0)
    IN IF i = -1 THEN <<s>>
       ELSE <<Slice(s, 0, i), SliceFrom(s, i + Len(sep))>>

\* s.count(sub): non-overlapping occurrences
count(s, sub) == Len(split(s, sub)) - 1

RECURSIVE join(_, _)
\* sep.join(parts)
join(sep, parts) ==
    IF parts = <<>> THEN <<>>
    ELSE IF Len(parts) = 1 THEN parts[1]
    ELSE parts[1] \o sep \o join(sep, Tail(parts))

\* s.lstrip(chars)
lstrip(s, chars) ==
    LET keep == {i \in 1..Len(s) : s[i] \notin chars}
    IN IF keep = {} THEN <<>>
       ELSE SubSeq(s, CHOOSE i \in keep : \A j \in keep : i <= j, Len(s))

\* s.rstrip(chars)
rstrip(s, chars) ==
    LET keep == {i \in 1..Len(s) : s[i] \notin chars}
    IN IF keep = {} THEN <<>>
       ELSE SubSeq(s, 1, CHOOSE i \in keep : \A j \in keep : i >= j)

\* s.strip()
strip(s) == rstrip(lstrip(s, Whitespace), Whitespace)

Digit(d) == <<"0", "1", "2", "3", "4", "5", "6", "7", "8", "9">>[d + 1]

RECURSIVE str(_)
\* str(n) for n >= 0: the decimal digits
str(n) == IF n < 10 THEN <<Digit(n)>> ELSE str(n \div 10) \o <<Digit(n % 10)>>

-----------------------------------------------------------------------------
(* Results of calls that may raise *)

Ok(v) == [ok |-> TRUE, val |-> v, err |-> ""]

Raise(msg) == [ok |-> FALSE, val |-> <<>>, err |-> msg]

RECURSIVE Flatten(_)
\* concatenation of a sequence of sequences
Flatten(ss) == IF ss = <<>> THEN <<>> ELSE Head(ss) \o Flatten(Tail(ss))

-----------------------------------------------------------------------------
(* textnode.py *)

TextType == {"text", "bold", "italic", "code", "link", "image"}

\* TextNode(text, text_type, url)
TextNode(t, tt, u) == [text |-> t, text_type |-> tt, url |-> u]

-----------------------------------------------------------------------------
(* inline_markdown_to_html.py *)

\* split_one_node with the fragments numbered from 1, so that the first
\* fragment is styled.
split_one_node_from_1(node, delimiter, text_type) ==
    IF node.text_type # "text" \/ count(node.text, delimiter) = 0
    THEN <<node>>
    ELSE LET split_list == split(node.text, delimiter)
             piece(i) == IF split_list[i] = <<>> THEN <<>>
                         ELSE IF i % 2 = 0
                              THEN <<TextNode(split_list[i], "text", None)>>
                              ELSE <<TextNode(split_list[i], text_type, None)>>
         IN Flatten([i \in 1..Len(split_list) |-> piece(i)])

\* split_one_node without the test of the node's type: a typed node with
\* the delimiter in it is split as a plain one is.
split_one_node_any_type(node, delimiter, text_type) ==
    IF count(node.text, delimiter) = 0
    THEN <<node>>
    ELSE LET split_list == split(node.text, delimiter)
             piece(i) == IF split_list[i] = <<>> THEN <<>>
                         ELSE IF (i - 1) % 2 = 0
                              THEN <<TextNode(split_list[i], "text", None)>>
                              ELSE <<TextNode(split_list[i], text_type, None)>>
         IN Flatten([i \in 1..Len(split_list) |-> piece(i)])

\* The nodes one old node contributes in split_nodes_delimiter (the body of
\* the for loop after the balance check).
split_one_node(node, delimiter, text_type) ==
    IF node.text_type # "text" \/ count(node.text, delimiter) = 0
    THEN <<node>>
    ELSE LET split_list == split(node.text, delimiter)
             piece(i) == IF split_list[i] = <<>> THEN <<>>
                         ELSE IF (i - 1) % 2 = 0
                              THEN <<TextNode(split_list[i], "text", None)>>
                              ELSE <<TextNode(split_list[i], text_type, None)>>
         IN Flatten([i \in 1..Len(split_list) |-> piece(i)])

\* unbalanced made on plain nodes only.
unbalanced_plain_only(node, delimiter) ==
    node.text_type = "text" /\ count(node.text, delimiter) % 2 # 0

\* The balance check of split_nodes_delimiter: made on every node, whatever
\* its type, before the type is looked at.
unbalanced(node, delimiter) == count(node.text, delimiter) % 2 # 0

split_nodes_delimiter(olds, delimiter, text_type) ==
    IF \E i \in 1..Len(olds) : unbalanced(olds[i], delimiter)
    THEN Raise("invalid Markdown syntax.")
    ELSE Ok(Flatten([i \in 1..Len(olds) |->
                        split_one_node(olds[i], delimiter, text_type)]))

\* First index >= from whose character is in stops, 0 if there is none.
first_of(s, from, stops) ==
    LET hits == {i \in from..Len(s) : s[i] \in stops}
    IN IF hits = {} THEN 0 ELSE CHOOSE i \in hits : \A j \in hits : i <= j

\* The bracket part shared by the two regexes (an opening square bracket, a
\* run of non-bracket characters, a closing square bracket, an opening
\* parenthesis, a run of non-parenthesis characters, a closing parenthesis)
\* tried at 1-based index p: matched, last index of the match, the groups.
match_bracket(s, p) ==
    LET q == first_of(s, p + 1, {"[", "]"})
        r == first_of(s, q + 2, {"(", ")"})
        hit == /\ p >= 1 /\ p <= Len(s) /\ s[p] = "["
               /\ q # 0 /\ s[q] = "]"
               /\ q + 1 <= Len(s) /\ s[q + 1] = "("
               /\ r # 0 /\ s[r] = ")"
    IN IF hit
       THEN [matched |-> TRUE, last |-> r,
             groups |-> <<SubSeq(s, p + 1, q - 1), SubSeq(s, q + 2, r - 1)>>]
       ELSE [matched |-> FALSE, last |-> 0, groups |-> <<>>]

RECURSIVE images_from(_, _)
\* re.findall of the image pattern, scanning from 1-based index pos
images_from(s, pos) ==
    IF pos > Len(s) THEN <<>>
    ELSE LET m == match_bracket(s, pos + 1)
         IN IF s[pos] = "!" /\ m.matched
            THEN <<m.groups>> \o images_from(s, m.last + 1)
            ELSE images_from(s, pos + 1)

extract_markdown_images(s) == images_from(s, 1)

RECURSIVE links_from(_, _)
\* re.findall of the link pattern with its negative lookbehind for a bang
links_from(s, pos) ==
    IF pos > Len(s) THEN <<>>
    ELSE LET m == match_bracket(s, pos)
         IN IF (pos = 1 \/ s[pos - 1] # "!") /\ m.matched
            THEN <<m.groups>> \o links_from(s, m.last + 1)
            ELSE links_from(s, pos + 1)

extract_markdown_links(s) == links_from(s, 1)

\* pattern_format.format(prop_text, url)
pattern_format(text_type, prop_text, url) ==
    (IF text_type = "image" THEN <<"!">> ELSE <<>>)
        \o <<"[">> \o prop_text \o <<"]", "(">> \o url \o <<")">>

RECURSIVE emit_matches_without_url(_, _, _, _)
\* emit_matches with the Image and Link nodes built without their url.
emit_matches_without_url(remaining_text, matches, text_type, cursor) ==
    IF matches = <<>>
    THEN IF cursor < Len(remaining_text) /\ SliceFrom(remaining_text, cursor) # <<>>
         THEN <<TextNode(SliceFrom(remaining_text, cursor), "text", None)>>
         ELSE <<>>
    ELSE LET prop_text == Head(matches)[1]
             url == Head(matches)[2]
             pattern == pattern_format(text_type, prop_text, url)
             start_index == find(remaining_text, pattern, cursor)
             before == IF start_index > cursor
                          /\ Slice(remaining_text, cursor, start_index) # <<>>
                       THEN <<TextNode(Slice(remaining_text, cursor, start_index),
                                       "text", None)>>
                       ELSE <<>>
         IN before \o <<TextNode(prop_text, text_type, None)>>
                \o emit_matches_without_url(remaining_text, Tail(matches),
                                            text_type, start_index + Len(pattern))

RECURSIVE emit_matches_dropping_remainder(_, _, _, _)
\* emit_matches without the text after the last match.
emit_matches_dropping_remainder(remaining_text, matches, text_type, cursor) ==
    IF matches = <<>>
    THEN <<>>
    ELSE LET prop_text == Head(matches)[1]
             url == Head(matches)[2]
             pattern == pattern_format(text_type, prop_text, url)
             start_index == find(remaining_text, pattern, cursor)
             before == IF start_index > cursor
                          /\ Slice(remaining_text, cursor, start_index) # <<>>
                       THEN <<TextNode(Slice(remaining_text, cursor, start_index),
                                       "text", None)>>
                       ELSE <<>>
         IN before \o <<TextNode(prop_text, text_type, Some(url))>>
                \o emit_matches_dropping_remainder(remaining_text, Tail(matches),
                                                   text_type, start_index + Len(pattern))

RECURSIVE emit_matches(_, _, _, _)
\* The loop over matches of split_nodes_by_markdown and the remainder after
\* it, from the given cursor.
emit_matches(remaining_text, matches, text_type, cursor) ==
    IF matches = <<>>
    THEN IF cursor < Len(remaining_text) /\ SliceFrom(remaining_text, cursor) # <<>>
         THEN <<TextNode(SliceFrom(remaining_text, cursor), "text", None)>>
         ELSE <<>>
    ELSE LET prop_text == Head(matches)[1]
             url == Head(matches)[2]
             pattern == pattern_format(text_type, prop_text, url)
             start_index == find(remaining_text, pattern, cursor)
             before == IF start_index > cursor
                          /\ Slice(remaining_text, cursor, start_index) # <<>>
                       THEN <<TextNode(Slice(remaining_text, cursor, start_index),
                                       "text", None)>>
                       ELSE <<>>
         IN before \o <<TextNode(prop_text, text_type, Some(url))>>
                \o emit_matches(remaining_text, Tail(matches), text_type,
                                start_index + Len(pattern))

\* split_one_by_markdown without the test of the node's type.
split_one_by_markdown_any_type(node, text_type) ==
    LET matches == IF text_type = "image"
                   THEN extract_markdown_images(node.text)
                   ELSE extract_markdown_links(node.text)
    IN IF matches = <<>> THEN <<node>>
       ELSE emit_matches(node.text, matches, text_type, 0)

\* The nodes one old node contributes in split_nodes_by_markdown.
split_one_by_markdown(node, text_type) ==
    IF node.text_type # "text" THEN <<node>>
    ELSE LET matches == IF text_type = "image"
                        THEN extract_markdown_images(node.text)
                        ELSE extract_markdown_links(node.text)
         IN IF matches = <<>> THEN <<node>>
            ELSE emit_matches(node.text, matches, text_type, 0)

split_nodes_by_markdown(olds, text_type) ==
    Flatten([i \in 1..Len(olds) |-> split_one_by_markdown(olds[i], text_type)])

split_nodes_image(olds) == split_nodes_by_markdown(olds, "image")

split_nodes_link(olds) == split_nodes_by_markdown(olds, "link")

\* The delimiter and type of each delimiter pass of text_to_textnodes.
BoldDelimiter == <<"*", "*">>

ItalicDelimiter == <<"_">>

CodeDelimiter == <<BT>>

\* The image pass and the link pass, which raise nothing.
then_image_link(code_italic_bold_nodes) ==
    IF ~code_italic_bold_nodes.ok THEN code_italic_bold_nodes
    ELSE Ok(split_nodes_link(split_nodes_image(code_italic_bold_nodes.val)))

\* The code pass and what follows it, unless the italic pass raised.
then_code(italic_bold_nodes) ==
    IF ~italic_bold_nodes.ok THEN italic_bold_nodes
    ELSE then_image_link(split_nodes_delimiter(italic_bold_nodes.val,
                                               CodeDelimiter, "code"))

\* The italic pass and what follows it, unless the bold pass raised.
then_italic(bold_nodes) ==
    IF ~bold_nodes.ok THEN bold_nodes
    ELSE then_code(split_nodes_delimiter(bold_nodes.val, ItalicDelimiter,
                                         "italic"))

text_to_textnodes(t) ==
    then_italic(split_nodes_delimiter(<<TextNode(t, "text", None)>>,
                                      BoldDelimiter, "bold"))

-----------------------------------------------------------------------------
(* html_parent_leaf_node.py *)

\* LeafNode(tag, value, props): HTMLNode.__init__(tag, value, None, props)
LeafNode(tag, value, props) ==
    [class |-> "LeafNode", tag |-> tag, value |-> value, children |-> None,
     props |-> props]

\* ParentNode(tag, children, props): HTMLNode.__init__(tag, None, children, props)
ParentNode(tag, kids, props) ==
    [class |-> "ParentNode", tag |-> tag, value |-> None, children |-> kids,
     props |-> props]

\* An f-string field: str(None) is "None", a str is itself.
format(o) == IF o = None THEN <<"N", "o", "n", "e">> ELSE Get(o)

\* props_to_html writing the first attribute only.
props_to_html_first_only(node) ==
    IF node.props = None \/ Get(node.props) = <<>> THEN <<>>
    ELSE LET props == Get(node.props)
         IN <<" ">> \o props[1][1] \o <<"=", "\"">> \o format(props[1][2])
                \o <<"\"">>

\* HTMLNode.props_to_html; props is an optional sequence of <<key, value>>
\* pairs in insertion order.
props_to_html(node) ==
    IF node.props = None THEN <<>>
    ELSE LET props == Get(node.props)
         IN Flatten([i \in 1..Len(props) |->
                <<" ">> \o props[i][1] \o <<"=", "\"">> \o format(props[i][2])
                    \o <<"\"">>])

\* LeafNode_to_html with a node that has no tag rendered as an empty string.
LeafNode_to_html_untagged_empty(node) ==
    IF node.value = None THEN Raise("invalid HTML: no value")
    ELSE IF node.tag = None THEN Ok(<<>>)
    ELSE Ok(<<"<">> \o Get(node.tag) \o props_to_html(node) \o <<">">>
            \o Get(node.value) \o <<"<", "/">> \o Get(node.tag) \o <<">">>)

\* LeafNode.to_html
LeafNode_to_html(node) ==
    IF node.value = None THEN Raise("invalid HTML: no value")
    ELSE IF node.tag = None THEN Ok(Get(node.value))
    ELSE Ok(<<"<">> \o Get(node.tag) \o props_to_html(node) \o <<">">>
            \o Get(node.value) \o <<"<", "/">> \o Get(node.tag) \o <<">">>)

\* parent_html with the children's renderings in reverse order.
parent_html_reversed(node, parts) ==
    <<"<">> \o Get(node.tag) \o props_to_html(node) \o <<">">>
        \o Flatten([i \in 1..Len(parts) |-> parts[Len(parts) + 1 - i]])
        \o <<"<", "/">> \o Get(node.tag) \o <<">">>

\* parent_html of ParentNode.to_html once every child has rendered: the
\* opening tag, the children's renderings in order, the closing tag.
parent_html(node, parts) ==
    <<"<">> \o Get(node.tag) \o props_to_html(node) \o <<">">>
        \o Flatten(parts)
        \o <<"<", "/">> \o Get(node.tag) \o <<">">>

RECURSIVE to_html(_)
\* node.to_html(), for a LeafNode and for a ParentNode
to_html(node) ==
    IF node.class = "LeafNode" THEN LeafNode_to_html(node)
    ELSE IF node.tag = None THEN Raise("invalid HTML: no tag")
    ELSE IF node.children = None THEN Raise("invalid HTML: no children")
    ELSE LET kids == Get(node.children)
             parts == [i \in 1..Len(kids) |-> to_html(kids[i])]
             bad == {i \in 1..Len(kids) : ~parts[i].ok}
         IN IF bad # {}
            THEN parts[CHOOSE i \in bad : \A j \in bad : i <= j]
            ELSE Ok(parent_html(node, [i \in 1..Len(kids) |-> parts[i].val]))

\* after_to_html with the children taken out of the node.
after_to_html_children_consumed(node) ==
    IF node.children = None THEN node ELSE [node EXCEPT !.children = Some(<<>>)]

\* The node after node.to_html(): to_html and props_to_html read the node's
\* attributes and assign none of them.
after_to_html(node) == node

\* The tag of each TextType in text_type_map.
text_type_map(text_type) ==
    CASE text_type = "text" -> None
      [] text_type = "bold" -> Some(<<"b">>)
      [] text_type = "italic" -> Some(<<"i">>)
      [] text_type = "code" -> Some(<<"c", "o", "d", "e">>)
      [] text_type = "link" -> Some(<<"a">>)
      [] text_type = "image" -> Some(<<"i", "m", "g">>)

\* text_node_to_html_node with the alt attribute of an image left out.
text_node_to_html_node_no_alt(text_node) ==
    IF text_node.text_type \in TextType
    THEN Ok(CASE text_node.text_type = "link" ->
                    LeafNode(text_type_map("link"), Some(text_node.text),
                             Some(<<<<<<"h", "r", "e", "f">>, text_node.url>>>>))
              [] text_node.text_type = "image" ->
                    LeafNode(text_type_map("image"), Some(<<>>),
                             Some(<<<<<<"s", "r", "c">>, text_node.url>>>>))
              [] OTHER ->
                    LeafNode(text_type_map(text_node.text_type),
                             Some(text_node.text), Some(<<>>)))
    ELSE Raise("Unknown TextType")

text_node_to_html_node(text_node) ==
    IF text_node.text_type \in TextType
    THEN Ok(CASE text_node.text_type = "link" ->
                    LeafNode(text_type_map("link"), Some(text_node.text),
                             Some(<<<<<<"h", "r", "e", "f">>, text_node.url>>>>))
              [] text_node.text_type = "image" ->
                    LeafNode(text_type_map("image"), Some(<<>>),
                             Some(<<<<<<"s", "r", "c">>, text_node.url>>,
                                    <<<<"a", "l", "t">>, Some(text_node.text)>>>>))
              [] OTHER ->
                    LeafNode(text_type_map(text_node.text_type),
                             Some(text_node.text), Some(<<>>)))
    ELSE Raise("Unknown TextType")

-----------------------------------------------------------------------------
(* block_markdown_to_html.py *)

BlockType == {"paragraph", "heading", "code", "quote", "unordered_list",
              "ordered_list"}

\* A loop that appends one result per item and stops at the first raise.
collect(results) ==
    LET bad == {i \in 1..Len(results) : ~results[i].ok}
    IN IF bad # {}
       THEN results[CHOOSE i \in bad : \A j \in bad : i <= j]
       ELSE Ok([i \in 1..Len(results) |-> results[i].val])

\* markdown_to_blocks with the empty blocks kept.
markdown_to_blocks_keeping_empty(document) ==
    LET blocks == split(document, <<NL, NL>>)
    IN [i \in 1..Len(blocks) |-> strip(blocks[i])]

\* markdown_to_blocks with the fragments tested for emptiness after strip
\* but returned as they were cut.
markdown_to_blocks_unstripped(document) ==
    LET blocks == split(document, <<NL, NL>>)
        processed == [i \in 1..Len(blocks) |->
                         IF strip(blocks[i]) # <<>> THEN <<blocks[i]>>
                         ELSE <<>>]
    IN Flatten(processed)

markdown_to_blocks(document) ==
    LET blocks == split(document, <<NL, NL>>)
        processed == [i \in 1..Len(blocks) |->
                         IF strip(blocks[i]) # <<>> THEN <<strip(blocks[i])>>
                         ELSE <<>>]
    IN Flatten(processed)

\* heading_prefixes with a seventh prefix, of seven hashes.
heading_prefixes_upto_7 ==
    {[i \in 1..(n + 1) |-> IF i <= n THEN "#" ELSE " "] : n \in 1..7}

\* The six prefixes of the heading test.
heading_prefixes ==
    {[i \in 1..(n + 1) |-> IF i <= n THEN "#" ELSE " "] : n \in 1..6}

\* The heading test of block_to_block_type.
is_heading(block) == \E p \in heading_prefixes : startswith(block, p)

\* is_code without the test of the closing fence.
is_code_opening_only(block) == startswith(block, <<BT, BT, BT>>)

\* The code test of block_to_block_type.
is_code(block) ==
    startswith(block, <<BT, BT, BT>>) /\ endswith(block, <<BT, BT, BT>>)

\* every_line_startswith with each line stripped of leading whitespace first.
every_line_startswith_lenient(block, marker) ==
    \A i \in 1..Len(split(block, <<NL>>)) :
        startswith(lstrip(split(block, <<NL>>)[i], Whitespace), marker)

\* The loop of the quote and of the unordered list test: no line fails to
\* start with the marker.
every_line_startswith(block, marker) ==
    \A i \in 1..Len(split(block, <<NL>>)) :
        startswith(split(block, <<NL>>)[i], marker)

\* numbered_in_sequence with count never incremented.
numbered_in_sequence_stuck(block) ==
    \A i \in 1..Len(split(block, <<NL>>)) :
        startswith(split(block, <<NL>>)[i], str(1) \o <<".", " ">>)

\* The loop of the ordered list test, count running from 1.
numbered_in_sequence(block) ==
    \A i \in 1..Len(split(block, <<NL>>)) :
        startswith(split(block, <<NL>>)[i], str(i) \o <<".", " ">>)

block_to_block_type(block) ==
    IF is_heading(block) THEN "heading"
    ELSE IF is_code(block) THEN "code"
    ELSE IF startswith(block, <<">">>)
    THEN IF every_line_startswith(block, <<">">>) THEN "quote" ELSE "paragraph"
    ELSE IF startswith(block, <<"-", " ">>)
    THEN IF every_line_startswith(block, <<"-", " ">>) THEN "unordered_list"
         ELSE "paragraph"
    ELSE IF startswith(block, <<"1", ".", " ">>)
    THEN IF numbered_in_sequence(block) THEN "ordered_list" ELSE "paragraph"
    ELSE "paragraph"

\* The loop of text_to_children over the text nodes, unless tokenizing raised.
to_html_nodes(text_nodes) ==
    IF ~text_nodes.ok THEN text_nodes
    ELSE collect([i \in 1..Len(text_nodes.val) |->
                     text_node_to_html_node(text_nodes.val[i])])

text_to_children(t) == to_html_nodes(text_to_textnodes(t))

\* ParentNode(tag, children) over the result of a call that may have raised
parent_of(tag, kids) ==
    IF ~kids.ok THEN kids ELSE Ok(ParentNode(Some(tag), Some(kids.val), None))

\* paragraph_to_html_node with the lines left as they are, not joined.
paragraph_to_html_node_unjoined(block) ==
    parent_of(<<"p">>, text_to_children(block))

paragraph_to_html_node(block) ==
    parent_of(<<"p">>, text_to_children(join(<<" ">>, split(block, <<NL>>))))

\* heading_to_html_node counting the hashes of the whole block.
heading_to_html_node_all_hashes(block) ==
    LET symbols_and_heading == split1(block, <<" ">>)
        n == count(block, <<"#">>)
    IN IF n + 1 >= Len(block) THEN Raise("invalid heading")
       ELSE IF Len(symbols_and_heading) < 2 THEN Raise("IndexError")
       ELSE parent_of(<<"h">> \o str(n), text_to_children(symbols_and_heading[2]))

\* heading_to_html_node taking a heading text of one character for none.
heading_to_html_node_one_character_invalid(block) ==
    LET symbols_and_heading == split1(block, <<" ">>)
        n == count(symbols_and_heading[1], <<"#">>)
    IN IF n + 2 >= Len(block) THEN Raise("invalid heading")
       ELSE IF Len(symbols_and_heading) < 2 THEN Raise("IndexError")
       ELSE parent_of(<<"h">> \o str(n), text_to_children(symbols_and_heading[2]))

heading_to_html_node(block) ==
    LET symbols_and_heading == split1(block, <<" ">>)
        n == count(symbols_and_heading[1], <<"#">>)
    IN IF n + 1 >= Len(block) THEN Raise("invalid heading")
       ELSE IF Len(symbols_and_heading) < 2 THEN Raise("IndexError")
       ELSE parent_of(<<"h">> \o str(n), text_to_children(symbols_and_heading[2]))

\* code_to_html_node with the code node built without its list of children.
code_to_html_node_childless(block) ==
    IF ~startswith(block, <<BT, BT, BT>>) \/ ~endswith(block, <<BT, BT, BT>>)
    THEN Raise("invalid code block")
    ELSE LET code_node == ParentNode(Some(<<"c", "o", "d", "e">>), None, None)
         IN Ok(ParentNode(Some(<<"p", "r", "e">>), Some(<<code_node>>), None))

code_to_html_node(block) ==
    IF ~startswith(block, <<BT, BT, BT>>) \/ ~endswith(block, <<BT, BT, BT>>)
    THEN Raise("invalid code block")
    ELSE LET child_node == text_node_to_html_node(
                               TextNode(SliceFromDropLast(block, 4, 3), "text", None))
             code_node == ParentNode(Some(<<"c", "o", "d", "e">>),
                                     Some(<<child_node.val>>), None)
         IN Ok(ParentNode(Some(<<"p", "r", "e">>), Some(<<code_node>>), None))

unordered_list_to_html_node(block) ==
    LET list_lines == split(block, <<NL>>)
        item(i) == IF ~startswith(list_lines[i], <<"-">>)
                   THEN Raise("invalid unordered list line")
                   ELSE parent_of(<<"l", "i">>,
                                  text_to_children(SliceFrom(list_lines[i], 2)))
    IN parent_of(<<"u", "l">>, collect([i \in 1..Len(list_lines) |-> item(i)]))

ordered_list_to_html_node(block) ==
    LET list_lines == split(block, <<NL>>)
        item(i) == IF ~startswith(list_lines[i], str(i) \o <<".">>)
                   THEN Raise("invalid ordered list line")
                   ELSE parent_of(<<"l", "i">>,
                                  text_to_children(SliceFrom(list_lines[i], 3)))
    IN parent_of(<<"o", "l">>, collect([i \in 1..Len(list_lines) |-> item(i)]))

quote_to_html_node(block) ==
    LET quote_lines == split(block, <<NL>>)
        processed_lines == [i \in 1..Len(quote_lines) |->
                               strip(lstrip(quote_lines[i], {">"}))]
    IN IF \E i \in 1..Len(quote_lines) : ~startswith(quote_lines[i], <<">">>)
       THEN Raise("invalid quote block")
       ELSE parent_of(<<"b", "l", "o", "c", "k", "q", "u", "o", "t", "e">>,
                      text_to_children(join(<<" ">>, processed_lines)))

\* The dispatch of block_to_html_node on the block type it computed.
compile_as(type, block) ==
    CASE type = "paragraph" -> paragraph_to_html_node(block)
      [] type = "heading" -> heading_to_html_node(block)
      [] type = "code" -> code_to_html_node(block)
      [] type = "unordered_list" -> unordered_list_to_html_node(block)
      [] type = "ordered_list" -> ordered_list_to_html_node(block)
      [] type = "quote" -> quote_to_html_node(block)
      [] OTHER -> Raise("invalid block type")

block_to_html_node(block) == compile_as(block_to_block_type(block), block)

-----------------------------------------------------------------------------
(* generate_content.py *)

\* extract_title with the title left untrimmed.
extract_title_untrimmed(markdown) ==
    LET lines == split(markdown, <<NL>>)
        found == {i \in 1..Len(lines) : startswith(lines[i], <<"#", " ">>)}
    IN IF found = {} THEN Raise("No title found in markdown.")
       ELSE Ok(SliceFrom(lines[CHOOSE i \in found : \A j \in found : i <= j], 2))

\* The loop returns at the first line that starts with a hash and a space.
extract_title(markdown) ==
    LET lines == split(markdown, <<NL>>)
        found == {i \in 1..Len(lines) : startswith(lines[i], <<"#", " ">>)}
    IN IF found = {} THEN Raise("No title found in markdown.")
       ELSE Ok(strip(SliceFrom(lines[CHOOSE i \in found : \A j \in found : i <= j],
                               2)))

-----------------------------------------------------------------------------
(* Inputs *)

\* Largest number of parts a generated document is made of.
MaxDocParts == 4

\* Largest number of lines of a generated block.
MaxLines == 2

\* Largest number of items of a generated long ordered list.
MaxItems == 10

\* Largest number of tokens a generated inline text is made of.
MaxTextTokens == 4

\* All concatenations of at most n members of parts.
Concats(parts, n) ==
    {Flatten(f) : f \in UNION {[1..k -> parts] : k \in 0..n}}

DocParts ==
    {<<NL, NL>>, <<NL>>, <<" ">>, <<"a">>, <<"#", " ", "a">>, <<"_">>,
     <<BT, BT, BT, NL, "a">>, <<NL, BT, BT, BT>>}

DocInputs == Concats(DocParts, MaxDocParts)

\* What a generated line starts with.
Markers ==
    {<<>>, <<"#">>, <<"#", " ">>, <<"#", "#", "#", "#", "#", "#", " ">>,
     <<"#", "#", "#", "#", "#", "#", "#", " ">>, <<" ", "#", " ">>,
     <<BT, BT, BT>>, <<">">>, <<" ", ">">>, <<"-", " ">>, <<"-">>,
     <<" ", "-", " ">>, <<"1", ".", " ">>, <<"2", ".", " ">>,
     <<"3", ".", " ">>, <<"1", ".">>}

\* Lines that exercise the inline tokenizer or close a fence.
MarkedUpLines ==
    {<<"_">>, <<"_", "a", "_">>, <<"a", BT, BT, BT>>,
     <<BT, BT, BT, "a", BT, BT, BT>>,
     <<"#", " ", "_", "a", "_">>, <<"-", " ", "_", "a", "_">>,
     <<"1", ".", " ", "_", "a", "_">>, <<">", " ", "_", "a", "_">>,
     <<"-", " ", "_">>, <<BT, BT, BT, "_">>}

Lines == {m \o b : m \in Markers, b \in {<<>>, <<"a">>}} \cup MarkedUpLines

ShortBlocks ==
    {join(<<NL>>, f) : f \in UNION {[1..k -> Lines] : k \in 1..MaxLines}}

\* The i-th line of a well-numbered list.
numbered(i) == str(i) \o <<".", " ", "a">>

\* Lines to put in place of a well-numbered i-th line.
deviations(i) ==
    {numbered(i), numbered(i + 1), numbered(1), <<"a">>,
     str(i) \o <<".", "a">>}

\* Ordered lists of up to MaxItems lines, all well numbered but at most one.
LongLists ==
    UNION {{join(<<NL>>, [i \in 1..t[1] |-> IF i = t[2] THEN d ELSE numbered(i)]) :
               d \in deviations(t[2])} :
           t \in {u \in (1..MaxItems) \X (1..MaxItems) : u[2] <= u[1]}}

BlockInputs == ShortBlocks \cup LongLists

TextTokens ==
    {<<"a">>, <<"*">>, <<"*", "*">>, <<"_">>, <<BT>>, <<"!">>,
     <<"[", "a", "]", "(", "u", ")">>}

TextInputs == Concats(TextTokens, MaxTextTokens)

\* Largest number of tokens a span handed to one pass is made of.
MaxSpanTokens == 4

SpanTokens ==
    {<<"a">>, <<"!">>, <<"[">>, <<"[", "a", "]", "(", "u", ")">>,
     <<"[", "b", "]", "(", "v", ")">>,
     <<"!", "[", "b", "]", "(", "v", ")">>}

SpanTexts == Concats(SpanTokens, MaxSpanTokens)

\* The type and url of a plain span, and of styled spans as the passes
\* before split_nodes_image and split_nodes_link leave them.
SpanTypes == {<<"text", None>>, <<"code", None>>, <<"image", Some(<<"u">>)>>}

\* The spans handed to split_nodes_image and split_nodes_link.
SpanInputs == {TextNode(t, tt[1], tt[2]) : t \in SpanTexts, tt \in SpanTypes}

\* Largest number of children of a generated node.
MaxChildren == 2

\* All sequences of at least least and at most MaxChildren members of S.
ChildLists(S, least) == UNION {[1..k -> S] : k \in least..MaxChildren}

\* Leaves with and without tag, value and attributes.
LeafInputs ==
    {LeafNode(tag, value, props) :
        tag \in {None, Some(<<"b">>)},
        value \in {None, Some(<<>>), Some(<<"a">>)},
        props \in {None, Some(<<>>),
                   Some(<<<<<<"h", "r", "e", "f">>, Some(<<"u">>)>>>>)}}

\* Parents of leaves, with and without tag, children and attributes.
ParentInputs ==
    {ParentNode(tag, kids, props) :
        tag \in {None, Some(<<"p">>)},
        kids \in {None} \cup {Some(c) : c \in ChildLists(LeafInputs, 0)},
        props \in {None, Some(<<<<<<"i", "d">>, Some(<<"x">>)>>>>)}}

\* The nodes put under the root of a deeper tree.
InnerInputs ==
    {LeafNode(None, Some(<<"a">>), None),
     LeafNode(Some(<<"b">>), None, None),
     ParentNode(Some(<<"p">>), Some(<<>>), None),
     ParentNode(Some(<<"p">>), Some(<<LeafNode(Some(<<"i">>), Some(<<"c">>), None),
                                     LeafNode(None, Some(<<"d">>), None)>>), None),
     ParentNode(Some(<<"p">>), Some(<<LeafNode(None, None, None)>>), None),
     ParentNode(Some(<<"p">>), None, None),
     ParentNode(None, Some(<<LeafNode(None, Some(<<"a">>), None)>>), None)}

\* The trees to_html is called on.
NodeInputs ==
    LeafInputs \cup ParentInputs
        \cup {ParentNode(Some(<<"d", "i", "v">>), Some(c), None) :
                  c \in ChildLists(InnerInputs, 1)}

\* The spans handed to text_node_to_html_node: of each TextType and of a
\* type that is none of them, with and without url.
TextNodeInputs ==
    {TextNode(t, tt, u) :
        t \in {<<>>, <<"a">>, <<"a", " ", "b">>, <<"<", "b", ">">>, <<"_">>},
        tt \in TextType \cup {"underline"},
        u \in {None, Some(<<>>), Some(<<"u">>)}}

\* Largest number of lines of a document handed to extract_title.
MaxTitleLines == 3

TitleLines ==
    {<<>>, <<"a">>, <<"#">>, <<"#", " ">>, <<"#", "a">>, <<"#", " ", "a">>,
     <<"#", " ", " ", "b", " ", TAB>>, <<"#", "#", " ", "c">>,
     <<" ", "#", " ", "d">>}

TitleInputs ==
    {join(<<NL>>, f) : f \in UNION {[1..k -> TitleLines] : k \in 1..MaxTitleLines}}

-----------------------------------------------------------------------------
(* The calls, step by step *)

\* markdown_to_html_node(markdown_document) is called, and to_html on the
\* node it returns.
Init ==
    /\ pc = "markdown_to_blocks"
    /\ markdown_document \in DocInputs
    /\ markdown_blocks = <<>>
    /\ children = <<>>
    /\ html_node = None
    /\ html = None
    /\ markdown_block = <<>>
    /\ block_type = ""
    /\ text = <<>>
    /\ old_nodes = <<>>
    /\ nodes = <<>>
    /\ textnode = None
    /\ title = None
    /\ invocations = <<>>
    /\ error = ""

\* block_to_html_node(markdown_block) is called, and to_html on the node it
\* returns.
InitBlock ==
    /\ pc = "block_to_block_type"
    /\ markdown_document = <<>>
    /\ markdown_blocks = <<>>
    /\ children = <<>>
    /\ html_node = None
    /\ html = None
    /\ markdown_block \in BlockInputs
    /\ block_type = ""
    /\ text = <<>>
    /\ old_nodes = <<>>
    /\ nodes = <<>>
    /\ textnode = None
    /\ title = None
    /\ invocations = <<>>
    /\ error = ""

\* text_to_textnodes(text) is called: raw_markdown_node is built.
InitInline ==
    /\ pc = "bold"
    /\ markdown_document = <<>>
    /\ markdown_blocks = <<>>
    /\ children = <<>>
    /\ html_node = None
    /\ html = None
    /\ markdown_block = <<>>
    /\ block_type = ""
    /\ text \in TextInputs
    /\ old_nodes = <<>>
    /\ nodes = <<TextNode(text, "text", None)>>
    /\ textnode = None
    /\ title = None
    /\ invocations = <<>>
    /\ error = ""

\* split_nodes_image(old_nodes) or split_nodes_link(old_nodes) is called on a
\* list of one span.
InitPass ==
    /\ pc = "split_nodes"
    /\ markdown_document = <<>>
    /\ markdown_blocks = <<>>
    /\ children = <<>>
    /\ html_node = None
    /\ html = None
    /\ markdown_block = <<>>
    /\ block_type = ""
    /\ text = <<>>
    /\ \E node \in SpanInputs : old_nodes = <<node>>
    /\ nodes = <<>>
    /\ textnode = None
    /\ title = None
    /\ invocations = <<>>
    /\ error = ""

\* A tree has been built and to_html is called on its root.
InitRender ==
    /\ pc = "returned"
    /\ markdown_document = <<>>
    /\ markdown_blocks = <<>>
    /\ children = <<>>
    /\ \E node \in NodeInputs : html_node = Some(node)
    /\ html = None
    /\ markdown_block = <<>>
    /\ block_type = ""
    /\ text = <<>>
    /\ old_nodes = <<>>
    /\ nodes = <<>>
    /\ textnode = None
    /\ title = None
    /\ invocations = <<>>
    /\ error = ""

\* text_node_to_html_node(text_node) is called, and to_html on the leaf it
\* returns.
InitSpan ==
    /\ pc = "text_node_to_html_node"
    /\ markdown_document = <<>>
    /\ markdown_blocks = <<>>
    /\ children = <<>>
    /\ html_node = None
    /\ html = None
    /\ markdown_block = <<>>
    /\ block_type = ""
    /\ text = <<>>
    /\ old_nodes = <<>>
    /\ nodes = <<>>
    /\ \E node \in TextNodeInputs : textnode = Some(node)
    /\ title = None
    /\ invocations = <<>>
    /\ error = ""

\* Either a document is compiled and rendered, or a tree built by hand is
\* rendered.
InitDocumentOrTree == Init \/ InitRender

\* extract_title(markdown_document) is called.
InitTitle ==
    /\ pc = "extract_title"
    /\ markdown_document \in TitleInputs
    /\ markdown_blocks = <<>>
    /\ children = <<>>
    /\ html_node = None
    /\ html = None
    /\ markdown_block = <<>>
    /\ block_type = ""
    /\ text = <<>>
    /\ old_nodes = <<>>
    /\ nodes = <<>>
    /\ textnode = None
    /\ title = None
    /\ invocations = <<>>
    /\ error = ""

\* markdown_blocks = markdown_to_blocks(markdown_document); children = []
SplitBlocks ==
    /\ pc = "markdown_to_blocks"
    /\ markdown_blocks' = markdown_to_blocks(markdown_document)
    /\ children' = <<>>
    /\ pc' = "for markdown_block"
    /\ UNCHANGED <<invocations, markdown_document, html_node, html, markdown_block,
                   block_type, text, old_nodes, nodes, error,
                   textnode, title>>

\* Appended with an empty leaf appended for a block whose converter raised.
Appended_placeholder_on_error(r) ==
    IF r.ok
    THEN children' = Append(children, r.val) /\ pc' = pc /\ error' = error
    ELSE /\ children' = Append(children, LeafNode(None, Some(<<>>), None))
         /\ pc' = pc /\ error' = r.err

\* Appended with the node put in front of children, not at their end.
Appended_in_front(r) ==
    IF r.ok
    THEN children' = <<r.val>> \o children /\ pc' = pc /\ error' = error
    ELSE children' = children /\ pc' = "raised" /\ error' = r.err

\* The outcome of a call within markdown_to_html_node's loop: its node is
\* appended to children, or its ValueError leaves markdown_to_html_node.
Appended(r) ==
    IF r.ok
    THEN children' = Append(children, r.val) /\ pc' = pc /\ error' = error
    ELSE children' = children /\ pc' = "raised" /\ error' = r.err

\* One turn of the loop: children.append(block_to_html_node(markdown_block))
ConvertBlock ==
    /\ pc = "for markdown_block"
    /\ Len(children) < Len(markdown_blocks)
    /\ Appended(block_to_html_node(markdown_blocks[Len(children) + 1]))
    /\ UNCHANGED <<invocations, markdown_document, markdown_blocks, html_node, html,
                   markdown_block, block_type, text, old_nodes, nodes,
                   textnode, title>>

\* return ParentNode("div", children)
ReturnDiv ==
    /\ pc = "for markdown_block"
    /\ Len(children) = Len(markdown_blocks)
    /\ html_node' = Some(ParentNode(Some(<<"d", "i", "v">>), Some(children), None))
    /\ pc' = "returned"
    /\ UNCHANGED <<invocations, markdown_document, markdown_blocks, children, html,
                   markdown_block, block_type, text, old_nodes, nodes, error,
                   textnode, title>>

\* The outcome of to_html: the string, or the ValueError.
Rendered(r) ==
    IF r.ok
    THEN html' = Some(r.val) /\ pc' = "rendered" /\ error' = error
    ELSE html' = html /\ pc' = "raised" /\ error' = r.err

\* html = node.to_html()
Render ==
    /\ pc = "returned"
    /\ Rendered(to_html(Get(html_node)))
    /\ html_node' = Some(after_to_html(Get(html_node)))
    /\ UNCHANGED <<invocations, markdown_document, markdown_blocks, children,
                   markdown_block, block_type, text, old_nodes, nodes,
                   textnode, title>>

\* The outcome of a second to_html on the same node.
RenderedAgain(r) ==
    IF r.ok
    THEN html' = Some(r.val) /\ pc' = "rendered again" /\ error' = error
    ELSE html' = html /\ pc' = "raised again" /\ error' = r.err

\* node.to_html() is called once more on the node that has been rendered.
RenderAgain ==
    /\ pc = "rendered"
    /\ RenderedAgain(to_html(Get(html_node)))
    /\ html_node' = Some(after_to_html(Get(html_node)))
    /\ UNCHANGED <<invocations, markdown_document, markdown_blocks, children,
                   markdown_block, block_type, text, old_nodes, nodes,
                   textnode, title>>

\* block_type = block_to_block_type(markdown_block)
Classify ==
    /\ pc = "block_to_block_type"
    /\ block_type' = block_to_block_type(markdown_block)
    /\ pc' = "dispatch"
    /\ UNCHANGED <<invocations, markdown_document, markdown_blocks, children, html_node,
                   html, markdown_block, text, old_nodes, nodes, error,
                   textnode, title>>

\* The outcome of a converter: the node it returns, or its ValueError.
Returned(r) ==
    IF r.ok
    THEN html_node' = Some(r.val) /\ pc' = "returned" /\ error' = error
    ELSE html_node' = html_node /\ pc' = "raised" /\ error' = r.err

\* The call of the converter of block_type.
Compile ==
    /\ pc = "dispatch"
    /\ Returned(compile_as(block_type, markdown_block))
    /\ UNCHANGED <<invocations, markdown_document, markdown_blocks, children, html,
                   markdown_block, block_type, text, old_nodes, nodes,
                   textnode, title>>

\* One pass of text_to_textnodes over the nodes of the pass before it.
Pass(at, result, next) ==
    /\ pc = at
    /\ old_nodes' = nodes
    /\ IF result.ok
       THEN nodes' = result.val /\ pc' = next /\ error' = error
       ELSE nodes' = nodes /\ pc' = "raised" /\ error' = result.err
    /\ UNCHANGED <<invocations, markdown_document, markdown_blocks, children, html_node,
                   html, markdown_block, block_type, text,
                   textnode, title>>

SplitBold ==
    Pass("bold", split_nodes_delimiter(nodes, BoldDelimiter, "bold"), "italic")

SplitItalic ==
    Pass("italic", split_nodes_delimiter(nodes, ItalicDelimiter, "italic"), "code")

SplitCode ==
    Pass("code", split_nodes_delimiter(nodes, CodeDelimiter, "code"), "image")

SplitImage == Pass("image", Ok(split_nodes_image(nodes)), "link")

SplitLink == Pass("link", Ok(split_nodes_link(nodes)), "final_nodes")

\* html_node = text_node_to_html_node(text_node)
ConvertSpan ==
    /\ pc = "text_node_to_html_node"
    /\ Returned(text_node_to_html_node(Get(textnode)))
    /\ UNCHANGED <<invocations, markdown_document, markdown_blocks, children, html,
                   markdown_block, block_type, text, old_nodes, nodes,
                   textnode, title>>

\* The outcome of extract_title: the title, or the ValueError.
Titled(r) ==
    IF r.ok
    THEN title' = Some(r.val) /\ pc' = "title returned" /\ error' = error
    ELSE title' = title /\ pc' = "raised" /\ error' = r.err

\* title = extract_title(markdown_document)
ExtractTitle ==
    /\ pc = "extract_title"
    /\ Titled(extract_title(markdown_document))
    /\ UNCHANGED <<invocations, markdown_document, markdown_blocks, children, html_node,
                   html, markdown_block, block_type, text, old_nodes, nodes,
                   textnode>>

\* nodes = split_nodes_image(old_nodes)
CallSplitImage ==
    /\ pc = "split_nodes"
    /\ nodes' = split_nodes_image(old_nodes)
    /\ pc' = "split_nodes_image returned"
    /\ UNCHANGED <<invocations, markdown_document, markdown_blocks, children, html_node,
                   html, markdown_block, block_type, text, old_nodes, error,
                   textnode, title>>

\* nodes = split_nodes_link(old_nodes)
CallSplitLink ==
    /\ pc = "split_nodes"
    /\ nodes' = split_nodes_link(old_nodes)
    /\ pc' = "split_nodes_link returned"
    /\ UNCHANGED <<invocations, markdown_document, markdown_blocks, children, html_node,
                   html, markdown_block, block_type, text, old_nodes, error,
                   textnode, title>>

Next == SplitBlocks \/ ConvertBlock \/ ReturnDiv \/ Render

NextBlock == Classify \/ Compile \/ Render

NextInline == SplitBold \/ SplitItalic \/ SplitCode \/ SplitImage \/ SplitLink

NextPass == CallSplitImage \/ CallSplitLink

NextRender == Render \/ RenderAgain

NextSpan == ConvertSpan \/ Render

NextTitle == ExtractTitle

Spec == Init /\ [][Next]_vars

SpecPass == InitPass /\ [][NextPass]_vars

SpecRender == InitRender /\ [][NextRender]_vars

SpecSpan == InitSpan /\ [][NextSpan]_vars

SpecTitle == InitTitle /\ [][NextTitle]_vars

SpecDocumentOrTree == InitDocumentOrTree /\ [][Next]_vars

SpecBlock == InitBlock /\ [][NextBlock]_vars

SpecInline == InitInline /\ [][NextInline]_vars

-----------------------------------------------------------------------------
(* Claims *)

\* The rendering of a node that renders.
rendering(node) == to_html(node).val

\* C1: when markdown_to_html_node succeeds it returns one ParentNode with tag
\* div whose children are the compiled nodes of the blocks of
\* markdown_to_blocks, one per block and in source order (none for a
\* document without blocks); its rendering is <div>, then the renderings of
\* the blocks' nodes in order, then </div>.
C1_DivOfBlocks ==
    pc \in {"returned", "rendered"} =>
        LET node == Get(html_node)
            blocks == markdown_to_blocks(markdown_document)
            compiled == [i \in 1..Len(blocks) |-> block_to_html_node(blocks[i])]
        IN /\ node.class = "ParentNode"
           /\ node.tag = Some(<<"d", "i", "v">>)
           /\ node.children # None
           /\ Len(Get(node.children)) = Len(blocks)
           /\ \A i \in 1..Len(blocks) :
                 compiled[i].ok /\ Get(node.children)[i] = compiled[i].val
           /\ pc = "rendered" =>
                 /\ html # None
                 /\ Get(html) =
                       <<"<", "d", "i", "v", ">">>
                           \o Flatten([i \in 1..Len(blocks) |->
                                          rendering(compiled[i].val)])
                           \o <<"<", "/", "d", "i", "v", ">">>

\* C1 witness: a document of two blocks that compile to different nodes has
\* been compiled and rendered.
C1_Witness ==
    /\ pc = "rendered"
    /\ Len(markdown_blocks) = 2
    /\ Get(Get(html_node).children)[1] # Get(Get(html_node).children)[2]

\* The delimiter of the pass that has just completed, by the position
\* text_to_textnodes is at.
DelimiterPassed ==
    CASE pc = "italic" -> BoldDelimiter
      [] pc = "code" -> ItalicDelimiter
      [] pc = "image" -> CodeDelimiter

\* The type the pass that has just completed gives to styled fragments.
TypePassed ==
    CASE pc = "italic" -> "bold"
      [] pc = "code" -> "italic"
      [] pc = "image" -> "code"

\* The 1-based index at which the run of equal characters holding s[i] starts.
RunStart(s, i) ==
    CHOOSE j \in 1..i :
        /\ \A k \in j..i : s[k] = s[i]
        /\ j = 1 \/ s[j - 1] # s[i]

\* Where the occurrences of delimiter d (one character, once or repeated)
\* start in s, counted from the left without overlap: within a run of the
\* character, every Len(d)-th place that has room for d.
Occurrences(s, d) ==
    {i \in 1..(Len(s) - Len(d) + 1) :
        /\ SubSeq(s, i, i + Len(d) - 1) = d
        /\ (i - RunStart(s, i)) % Len(d) = 0}

\* The members of a finite set of integers in increasing order.
Ascending(S) ==
    [k \in 1..Cardinality(S) |->
        CHOOSE x \in S : Cardinality({y \in S : y < x}) = k - 1]

\* The k-th fragment (k = 0, 1, ...) of s between the occurrences of d.
Fragment(s, d, k) ==
    LET at == Ascending(Occurrences(s, d))
        from == IF k = 0 THEN 1 ELSE at[k] + Len(d)
        to == IF k = Len(at) THEN Len(s) ELSE at[k + 1] - 1
    IN SubSeq(s, from, to)

\* What the claim has a pass over delimiter d with styled type t put in place
\* of a node.
Fragments(node, d, t) ==
    IF node.text_type = "text" /\ Occurrences(node.text, d) # {}
    THEN SelectSeq([k \in 1..(Cardinality(Occurrences(node.text, d)) + 1) |->
                       TextNode(Fragment(node.text, d, k - 1),
                                IF (k - 1) % 2 = 0 THEN "text" ELSE t, None)],
                   LAMBDA n : n.text # <<>>)
    ELSE <<node>>

\* C2: a delimiter pass fails with the ValueError of the balance check
\* whenever a plain span holds an odd number of occurrences of its delimiter
\* (so a pass that completed met none), and text_to_textnodes returns no
\* spans for a text with an odd number of backticks: it never gets past the
\* code pass.
C2_OddDelimiterRaises ==
    /\ pc \in {"italic", "code", "image"} =>
          \A i \in 1..Len(old_nodes) :
              old_nodes[i].text_type = "text" =>
                  Cardinality(Occurrences(old_nodes[i].text, DelimiterPassed)) % 2 = 0
    /\ pc = "raised" => error = "invalid Markdown syntax."
    /\ Cardinality({i \in 1..Len(text) : text[i] = BT}) % 2 = 1 =>
          pc \in {"bold", "italic", "code", "raised"}

\* C2 witness: the code pass has raised on a text whose only backtick lies in
\* a span the bold pass typed, every plain span being balanced.
C2_Witness ==
    /\ pc = "raised"
    /\ Cardinality({i \in 1..Len(text) : text[i] = BT}) = 1
    /\ \E i \in 1..Len(nodes) :
          nodes[i].text_type = "bold" /\ \E k \in 1..Len(nodes[i].text) :
                                             nodes[i].text[k] = BT

\* C3: a delimiter pass that completes puts, in place of each plain span with
\* an even, non-zero number of occurrences of the delimiter, its fragments in
\* order, even-indexed ones plain and odd-indexed ones styled, the empty ones
\* left out, and leaves a plain span without the delimiter as it is.
C3_FragmentsAlternate ==
    pc \in {"italic", "code", "image"} =>
        nodes = Flatten([i \in 1..Len(old_nodes) |->
                            Fragments(old_nodes[i], DelimiterPassed, TypePassed)])

\* C3 witness: a pass has split a plain span with occurrences of its
\* delimiter into a styled and a plain span and left out an empty fragment.
C3_Witness ==
    /\ pc \in {"italic", "code", "image"}
    /\ \E i \in 1..Len(old_nodes) :
          /\ old_nodes[i].text_type = "text"
          /\ Cardinality(Occurrences(old_nodes[i].text, DelimiterPassed)) >= 2
          /\ \E k \in 0..2 : Fragment(old_nodes[i].text, DelimiterPassed, k) = <<>>
    /\ \E i \in 1..Len(nodes) : nodes[i].text_type = TypePassed
    /\ \E i \in 1..Len(nodes) : nodes[i].text_type = "text"

\* The lines of a block: what lies between its newlines.
LinesOf(block) ==
    LET at == Ascending({i \in 1..Len(block) : block[i] = NL})
    IN [k \in 1..(Len(at) + 1) |->
           SubSeq(block,
                  IF k = 1 THEN 1 ELSE at[k - 1] + 1,
                  IF k = Len(at) + 1 THEN Len(block) ELSE at[k] - 1)]

\* How many times character c is repeated at the start of s.
Leading(s, c) ==
    Cardinality({i \in 1..Len(s) : \A k \in 1..i : s[k] = c})

\* Whether s reads marker at its very start.
Begins(s, marker) ==
    /\ Len(s) >= Len(marker)
    /\ \A k \in 1..Len(marker) : s[k] = marker[k]

\* Whether s reads marker at its very end.
Ends(s, marker) ==
    /\ Len(s) >= Len(marker)
    /\ \A k \in 1..Len(marker) : s[Len(s) - Len(marker) + k] = marker[k]

Digits == {"0", "1", "2", "3", "4", "5", "6", "7", "8", "9"}

\* The digit characters s starts with.
LeadingDigits(s) ==
    SubSeq(s, 1, Cardinality({i \in 1..Len(s) : \A k \in 1..i : s[k] \in Digits}))

RECURSIVE NumberRead(_)
\* The number a sequence of digit characters reads as.
NumberRead(d) ==
    IF d = <<>> THEN 0
    ELSE 10 * NumberRead(SubSeq(d, 1, Len(d) - 1))
            + (CHOOSE n \in 0..9 : Digit(n) = d[Len(d)])

\* Whether line starts with the decimal number i followed by a dot and a space.
Numbered(line, i) ==
    LET d == LeadingDigits(line)
    IN /\ d # <<>>
       /\ d[1] # "0"
       /\ NumberRead(d) = i
       /\ Begins(SubSeq(line, Len(d) + 1, Len(line)), <<".", " ">>)

\* block_to_block_type has returned.
Classified == pc \in {"dispatch", "returned", "rendered", "raised"}

\* The converter has returned a node.
Compiled == pc \in {"returned", "rendered"}

\* C4: a block is a Heading exactly when it starts with one to six hashes
\* immediately followed by a space; with seven or more leading hashes, or
\* with whitespace before the hashes, it is a Paragraph.
C4_HeadingRule ==
    Classified =>
        /\ block_type = "heading" <=>
              /\ Leading(markdown_block, "#") \in 1..6
              /\ Len(markdown_block) > Leading(markdown_block, "#")
              /\ markdown_block[Leading(markdown_block, "#") + 1] = " "
        /\ Leading(markdown_block, "#") >= 7 => block_type = "paragraph"
        /\ (/\ markdown_block # <<>>
            /\ markdown_block[1] \in Whitespace
            /\ Begins(lstrip(markdown_block, Whitespace), <<"#">>))
              => block_type = "paragraph"

\* C4 witness: a block of six hashes, a space and text has been classified.
C4_Witness ==
    /\ Classified
    /\ block_type = "heading"
    /\ Leading(markdown_block, "#") = 6

\* C5: a block is an OrderedList exactly when, for every i, its i-th line
\* starts with the decimal number i followed by a dot and a space (no earlier
\* rule matches such a block); a block whose first line is so numbered and
\* another line is not is a Paragraph.
C5_OrderedListRule ==
    Classified =>
        /\ block_type = "ordered_list" <=>
              \A i \in 1..Len(LinesOf(markdown_block)) :
                  Numbered(LinesOf(markdown_block)[i], i)
        /\ (/\ Numbered(LinesOf(markdown_block)[1], 1)
            /\ \E i \in 2..Len(LinesOf(markdown_block)) :
                  ~Numbered(LinesOf(markdown_block)[i], i))
              => block_type = "paragraph"

\* C5 witness: a list of at least ten lines has been classified OrderedList.
C5_Witness ==
    /\ Classified
    /\ block_type = "ordered_list"
    /\ Len(LinesOf(markdown_block)) >= 10

C7_CodeRule ==
    Classified =>
        /\ block_type = "code" <=>
              /\ block_type # "heading"
              /\ Begins(markdown_block, <<BT, BT, BT>>)
              /\ Ends(markdown_block, <<BT, BT, BT>>)
        /\ (Begins(markdown_block, <<BT, BT, BT>>)
                /\ ~Ends(markdown_block, <<BT, BT, BT>>))
              => block_type = "paragraph"

\* C7 witness: a fenced block of two lines has been classified Code.
C7_Witness ==
    /\ Classified
    /\ block_type = "code"
    /\ Len(LinesOf(markdown_block)) = 2
    /\ Len(markdown_block) > 7

\* A ParentNode without attributes, as the converters build it.
Parent(tag, kids) == ParentNode(Some(tag), Some(kids), None)

\* The leaves the inline tokenizer makes of a text it accepts.
Tokenized(t) == text_to_children(t).val

\* A Code block's text with the opening fence plus the newline after it, and
\* the closing fence, removed.
Unfenced(block) ==
    LET rest == SubSeq(block, 4, Len(block))
        body == IF Begins(rest, <<NL>>) THEN Tail(rest) ELSE rest
    IN SubSeq(body, 1, Len(body) - 3)

\* C8: the node of a Code block is Parent(pre) holding Parent(code) holding
\* one untagged Leaf whose value is the block's text with the opening fence
\* plus the newline after it and the closing fence removed; it renders
\* verbatim, and converting a Code block raises nothing.
C8_CodeVerbatim ==
    (Classified /\ block_type = "code") =>
        /\ pc # "raised"
        /\ Compiled =>
              LET pre == Get(html_node)
                  code == Get(pre.children)[1]
                  leaf == Get(code.children)[1]
              IN /\ pre.class = "ParentNode" /\ pre.tag = Some(<<"p", "r", "e">>)
                 /\ Len(Get(pre.children)) = 1
                 /\ code.class = "ParentNode"
                 /\ code.tag = Some(<<"c", "o", "d", "e">>)
                 /\ Len(Get(code.children)) = 1
                 /\ leaf.class = "LeafNode" /\ leaf.tag = None
                 /\ leaf.value = Some(Unfenced(markdown_block))
        /\ pc = "rendered" =>
              Get(html) = <<"<", "p", "r", "e", ">", "<", "c", "o", "d", "e", ">">>
                              \o Unfenced(markdown_block)
                              \o <<"<", "/", "c", "o", "d", "e", ">",
                                   "<", "/", "p", "r", "e", ">">>

\* A line of an ordered list with its numeric prefix and the dot and space
\* after it removed.
Unnumbered(line) == SubSeq(line, Len(LeadingDigits(line)) + 3, Len(line))

\* C9: the node of an OrderedList block is Parent(ol) with one Parent(li) per
\* line, in line order, whose children are the inline tokenization of the
\* line without its numeric prefix and the dot and space after it, whatever
\* the item number.
C9_OrderedListItems ==
    (Compiled /\ block_type = "ordered_list") =>
        Get(html_node) =
            Parent(<<"o", "l">>,
                   [i \in 1..Len(LinesOf(markdown_block)) |->
                       Parent(<<"l", "i">>,
                              Tokenized(Unnumbered(LinesOf(markdown_block)[i])))])

\* The text of a block after its first space.
AfterFirstSpace(block) ==
    SubSeq(block,
           (CHOOSE i \in 1..Len(block) :
               block[i] = " " /\ \A k \in 1..(i - 1) : block[k] # " ") + 1,
           Len(block))

\* C10: the node of a Heading block is a Parent with tag h followed by n,
\* the number (1 to 6) of leading hashes of the block, whose children are the
\* inline tokenization of the block's text after the first space.
C10_HeadingNode ==
    (Compiled /\ block_type = "heading") =>
        /\ Leading(markdown_block, "#") \in 1..6
        /\ Get(html_node) =
              Parent(<<"h", Digit(Leading(markdown_block, "#"))>>,
                     Tokenized(AfterFirstSpace(markdown_block)))

\* C10 witness: a heading of six hashes and some text has been compiled.
C10_Witness ==
    /\ Compiled
    /\ block_type = "heading"
    /\ Leading(markdown_block, "#") = 6
    /\ Len(Get(Get(html_node).children)) >= 1

\* A block with each of its newlines replaced by one space.
Unwrapped(block) == [i \in 1..Len(block) |-> IF block[i] = NL THEN " " ELSE block[i]]

\* C11: the node of a Paragraph block is Parent(p) whose children are the
\* inline tokenization of the block's lines joined by one space each; no
\* newline of the block is in a child's value or in the rendering.
C11_ParagraphJoined ==
    (Compiled /\ block_type = "paragraph") =>
        /\ Get(html_node) = Parent(<<"p">>, Tokenized(Unwrapped(markdown_block)))
        /\ \A i \in 1..Len(Get(Get(html_node).children)) :
              LET value == Get(Get(Get(html_node).children)[i].value)
              IN \A k \in 1..Len(value) : value[k] # NL
        /\ pc = "rendered" => \A k \in 1..Len(Get(html)) : Get(html)[k] # NL

\* C11 witness: a paragraph that holds a newline and tokenizes to more than
\* one span has been rendered.
C11_Witness ==
    /\ pc = "rendered"
    /\ block_type = "paragraph"
    /\ \E i \in 1..Len(markdown_block) : markdown_block[i] = NL
    /\ Len(Get(Get(html_node).children)) > 1

\* The least member of a non-empty set of integers.
Least(S) == CHOOSE x \in S : \A y \in S : x <= y

\* s holds, from index p on, an opening square bracket, text without square
\* brackets, a closing square bracket, an opening parenthesis, a url without
\* parentheses, and a closing parenthesis at index r.
FormFromTo(s, p, r) ==
    /\ p >= 1 /\ p <= r /\ r <= Len(s) /\ s[p] = "[" /\ s[r] = ")"
    /\ \E q \in (p + 1)..(r - 2) :
          /\ s[q] = "]" /\ s[q + 1] = "("
          /\ \A k \in (p + 1)..(q - 1) : s[k] \notin {"[", "]"}
          /\ \A k \in (q + 2)..(r - 1) : s[k] \notin {"(", ")"}

\* The index of the closing square bracket of the form from p to r.
MiddleOf(s, p) == Least({q \in (p + 1)..Len(s) : s[q] = "]"})

\* An image is written from index p to index r of s: a bang and the form.
ImageFromTo(s, p, r) == s[p] = "!" /\ FormFromTo(s, p + 1, r)

\* A link is written from index p to index r of s: the form, with no bang
\* immediately before it.
LinkFromTo(s, p, r) == (p = 1 \/ s[p - 1] # "!") /\ FormFromTo(s, p, r)

Written(kind, s, p, r) ==
    IF kind = "image" THEN ImageFromTo(s, p, r) ELSE LinkFromTo(s, p, r)

RECURSIVE Occurring(_, _, _)
\* The occurrences of kind in s from index from on, left to right and not
\* overlapping, each as <<first index, last index>>.
Occurring(kind, s, from) ==
    LET starts == {p \in from..Len(s) : \E r \in p..Len(s) : Written(kind, s, p, r)}
    IN IF starts = {} THEN <<>>
       ELSE LET p == Least(starts)
                r == Least({e \in p..Len(s) : Written(kind, s, p, e)})
            IN <<<<p, r>>>> \o Occurring(kind, s, r + 1)

\* The span of kind for the occurrence from p to r of s.
SpanOf(kind, s, p, r) ==
    LET b == IF kind = "image" THEN p + 1 ELSE p
        q == MiddleOf(s, b)
    IN TextNode(SubSeq(s, b + 1, q - 1), kind, Some(SubSeq(s, q + 2, r - 1)))

\* A plain span of the text of s from index a to index b, if that is not
\* empty.
PlainIfAny(s, a, b) ==
    IF a <= b THEN <<TextNode(SubSeq(s, a, b), "text", None)>> ELSE <<>>

\* What a pass for kind is to make of the plain text s: for each occurrence
\* in order, the plain text before it, if any, and its span; then the plain
\* remainder, if any.
Emitted(kind, s) ==
    LET at == Occurring(kind, s, 1)
        before(i) == PlainIfAny(s, IF i = 1 THEN 1 ELSE at[i - 1][2] + 1,
                                at[i][1] - 1)
    IN Flatten([i \in 1..Len(at) |->
                   before(i) \o <<SpanOf(kind, s, at[i][1], at[i][2])>>])
           \o PlainIfAny(s, at[Len(at)][2] + 1, Len(s))

\* What a pass for kind is to make of one span.
PassOver(kind, node) ==
    IF node.text_type = "text" /\ Occurring(kind, node.text, 1) # <<>>
    THEN Emitted(kind, node.text)
    ELSE <<node>>

\* C12: the image pass makes of a plain span, for each image in it from left
\* to right, the non-empty plain text before it and an Image span with its
\* alt text and url, then the non-empty remainder as a plain span; it
\* returns a plain span without image, and any span that is not plain, as
\* it is.
C12_ImagePass ==
    pc = "split_nodes_image returned" => nodes = PassOver("image", old_nodes[1])

\* C12 witness: the image pass has returned two different images with plain
\* text between them.
C12_Witness ==
    /\ pc = "split_nodes_image returned"
    /\ Len(nodes) = 3
    /\ nodes[1].text_type = "image" /\ nodes[3].text_type = "image"
    /\ nodes[1].text # nodes[3].text
    /\ nodes[2].text_type = "text"

\* C13: split_nodes_link makes Link spans of exactly the links of a plain
\* span that no bang immediately precedes, each where it occurs, with the
\* plain text around them kept; what a bang precedes stays plain text, also
\* next to a link of the same text and url.
C13_LinkPass ==
    pc = "split_nodes_link returned" => nodes = PassOver("link", old_nodes[1])

\* to_html has been called once on the node of html_node and has returned
\* or raised.
RenderedOnce == pc \in {"rendered", "raised"}

\* The attributes of a node as they are written in its opening tag: a
\* space, the key, an equals sign and the quoted value for each.
Attributes(node) ==
    IF node.props = None THEN <<>>
    ELSE Flatten([i \in 1..Len(Get(node.props)) |->
                     <<" ">> \o Get(node.props)[i][1] \o <<"=", "\"">>
                         \o Get(Get(node.props)[i][2]) \o <<"\"">>])

OpeningTag(node) == <<"<">> \o Get(node.tag) \o Attributes(node) \o <<">">>

ClosingTag(node) == <<"<", "/">> \o Get(node.tag) \o <<">">>

\* C14: LeafNode.to_html raises ValueError when the value is None; otherwise
\* it returns the value as it is when the tag is None, and the opening tag
\* with attributes, the value and the closing tag when the tag is set, an
\* empty value giving an empty pair of tags.
C14_LeafRendering ==
    (RenderedOnce /\ Get(html_node).class = "LeafNode") =>
        LET node == Get(html_node)
        IN IF node.value = None
           THEN pc = "raised" /\ error = "invalid HTML: no value" /\ html = None
           ELSE /\ pc = "rendered"
                /\ html = Some(IF node.tag = None THEN Get(node.value)
                               ELSE OpeningTag(node) \o Get(node.value)
                                        \o ClosingTag(node))

\* C14 witness: a leaf with a tag, an attribute and an empty value has been
\* rendered.
C14_Witness ==
    /\ pc = "rendered"
    /\ Get(html_node).class = "LeafNode"
    /\ Get(html_node).tag # None
    /\ Get(html_node).value = Some(<<>>)
    /\ Get(html_node).props \notin {None, Some(<<>>)}

\* C15: ParentNode.to_html raises ValueError when the tag is None or the
\* children are None; otherwise, its children rendering, it returns the
\* opening tag with attributes, the children's renderings in child order,
\* and the closing tag; an empty list of children gives an empty pair of
\* tags and no error.
C15_ParentRendering ==
    (RenderedOnce /\ Get(html_node).class = "ParentNode") =>
        LET node == Get(html_node)
        IN IF node.tag = None \/ node.children = None
           THEN /\ pc = "raised" /\ html = None
                /\ error = IF node.tag = None THEN "invalid HTML: no tag"
                           ELSE "invalid HTML: no children"
           ELSE (\A i \in 1..Len(Get(node.children)) :
                     to_html(Get(node.children)[i]).ok) =>
                    /\ pc = "rendered"
                    /\ html = Some(OpeningTag(node)
                                   \o Flatten([i \in 1..Len(Get(node.children)) |->
                                                  rendering(Get(node.children)[i])])
                                   \o ClosingTag(node))

\* C15 witness: a parent whose list of children is empty has been rendered,
\* as an empty pair of tags.
C15_Witness ==
    /\ pc = "rendered"
    /\ Get(html_node).class = "ParentNode"
    /\ Get(html_node).children = Some(<<>>)
    /\ html = Some(<<"<", "p", ">", "<", "/", "p", ">">>)

\* text_node_to_html_node has returned or raised.
Converted == pc \in {"returned", "rendered", "raised"} /\ textnode # None

\* C16: text_node_to_html_node makes a Leaf of a span by its type: no tag
\* for plain, b for bold, i for italic, code for code, each with the span's
\* text as value; tag a, the text as value and the attribute href = url for
\* a link; tag img, the empty value and the attributes src = url and
\* alt = text for an image; a span of any other type raises ValueError.
C16_SpanToLeaf ==
    Converted =>
        LET span == Get(textnode)
            leaf == Get(html_node)
            tagged(tag) == /\ html_node # None
                           /\ leaf.class = "LeafNode" /\ leaf.children = None
                           /\ leaf.tag = tag
        IN CASE span.text_type = "text" -> tagged(None) /\ leaf.value = Some(span.text)
             [] span.text_type = "bold" ->
                    tagged(Some(<<"b">>)) /\ leaf.value = Some(span.text)
             [] span.text_type = "italic" ->
                    tagged(Some(<<"i">>)) /\ leaf.value = Some(span.text)
             [] span.text_type = "code" ->
                    tagged(Some(<<"c", "o", "d", "e">>)) /\ leaf.value = Some(span.text)
             [] span.text_type = "link" ->
                    /\ tagged(Some(<<"a">>)) /\ leaf.value = Some(span.text)
                    /\ leaf.props = Some(<<<<<<"h", "r", "e", "f">>, span.url>>>>)
             [] span.text_type = "image" ->
                    /\ tagged(Some(<<"i", "m", "g">>)) /\ leaf.value = Some(<<>>)
                    /\ leaf.props = Some(<<<<<<"s", "r", "c">>, span.url>>,
                                          <<<<"a", "l", "t">>, Some(span.text)>>>>)
             [] OTHER -> pc = "raised" /\ html_node = None /\ error = "Unknown TextType"

\* C16 witness: an image span with alt text and url has become a Leaf and
\* has been rendered.
C16_Witness ==
    /\ pc = "rendered"
    /\ textnode # None
    /\ Get(textnode).text_type = "image"
    /\ Get(textnode).text = <<"a", " ", "b">>
    /\ Get(textnode).url = Some(<<"u">>)

\* markdown_to_blocks has returned.
Segmented == pc # "markdown_to_blocks"

OnlyWhitespace(document) ==
    \A i \in 1..Len(document) : document[i] \in Whitespace

\* C17: markdown_to_blocks fails on no document (an error of
\* markdown_to_html_node is that of a block's converter, raised after the
\* blocks were returned), and of a document of newlines and whitespace only
\* it returns the empty sequence of blocks.
C17_WhitespaceNoBlocks ==
    Segmented =>
        /\ pc = "raised" => Len(children) < Len(markdown_blocks)
        /\ OnlyWhitespace(markdown_document) =>
              markdown_blocks = <<>> /\ pc # "raised"

\* C17 witness: a document of blank lines and spaces has been segmented into
\* no block.
C17_Witness ==
    /\ Segmented
    /\ OnlyWhitespace(markdown_document)
    /\ \E i \in 1..(Len(markdown_document) - 2) :
          SubSeq(markdown_document, i, i + 2) = <<NL, NL, " ">>
    /\ markdown_blocks = <<>>

RECURSIVE FailsValidation(_)
\* Some node of the tree has what to_html rejects: a leaf without value, a
\* parent without tag or without children.
FailsValidation(node) ==
    IF node.class = "LeafNode" THEN node.value = None
    ELSE \/ node.tag = None
         \/ node.children = None
         \/ \E i \in 1..Len(Get(node.children)) :
               FailsValidation(Get(node.children)[i])

\* The blocks of the document whose converter raises.
FailingBlocks ==
    {i \in 1..Len(markdown_to_blocks(markdown_document)) :
        ~block_to_html_node(markdown_to_blocks(markdown_document)[i]).ok}

\* C18: when the converter of any block of a document raises,
\* markdown_to_html_node returns no tree, whatever the number of blocks
\* compiled before it, and ends with the error; when any node of a tree
\* fails validation, to_html of the root raises and returns no string.
C18_ErrorsAbort ==
    /\ FailingBlocks # {} =>
          /\ html_node = None /\ html = None
          /\ pc \in {"markdown_to_blocks", "for markdown_block", "raised"}
          /\ Len(children) < Least(FailingBlocks)
          /\ pc = "raised" => error # ""
    /\ (html_node # None /\ RenderedOnce) =>
          (FailsValidation(Get(html_node)) =>
              pc = "raised" /\ html = None /\ error # "")

\* C18 witness: markdown_to_html_node has raised at the second block of a
\* document, the first block compiled, and has returned nothing.
C18_Witness ==
    /\ pc = "raised"
    /\ Len(children) = 1
    /\ Len(markdown_blocks) = 2
    /\ html_node = None

\* to_html has raised on a tree whose first child renders and whose second
\* child holds a leaf without value.
C18_TreeRaised ==
    /\ pc = "raised"
    /\ html_node # None
    /\ Get(html_node).tag = Some(<<"d", "i", "v">>)
    /\ to_html(Get(Get(html_node).children)[1]).ok
    /\ Len(Get(Get(html_node).children)) = 2
    /\ FailsValidation(Get(Get(html_node).children)[2])

Greatest(S) == CHOOSE x \in S : \A y \in S : x >= y

\* s without the whitespace at its two ends.
Trimmed(s) ==
    LET inked == {i \in 1..Len(s) : s[i] \notin Whitespace}
    IN IF inked = {} THEN <<>> ELSE SubSeq(s, Least(inked), Greatest(inked))

\* The lines of the document that start with one hash and a space.
TitleLinesOf(document) ==
    {i \in 1..Len(LinesOf(document)) : Begins(LinesOf(document)[i], <<"#", " ">>)}

\* C20: extract_title returns the text after the hash and the space of the
\* first line of the markdown that starts with them, trimmed of whitespace
\* at both ends, and raises ValueError when no line starts with them; a line
\* that starts with two hashes or with whitespace is not a title line.
C20_FirstTitleLine ==
    pc \in {"title returned", "raised"} =>
        LET lines == LinesOf(markdown_document)
            titles == TitleLinesOf(markdown_document)
            first == lines[Least(titles)]
        IN /\ IF titles = {}
              THEN /\ pc = "raised" /\ title = None
                   /\ error = "No title found in markdown."
              ELSE /\ pc = "title returned"
                   /\ title = Some(Trimmed(SubSeq(first, 3, Len(first))))
           /\ (\A i \in 1..Len(lines) :
                  \/ lines[i] = <<>>
                  \/ lines[i][1] \in Whitespace
                  \/ Begins(lines[i], <<"#", "#">>)) => pc = "raised"

\* C20 witness: the title was taken from the second line that holds a hash,
\* the first of them a heading of level two, and was trimmed; a later title
\* line was passed over.
C20_Witness ==
    /\ pc = "title returned"
    /\ markdown_document =
          <<"#", "#", " ", "c", NL, "#", " ", " ", "b", " ", TAB, NL, "#", " ", "a">>
    /\ title = Some(<<"b">>)

\* The delimiters of the three delimiter passes.
PassDelimiters == {BoldDelimiter, ItalicDelimiter, CodeDelimiter}

PassCompleted == pc \in {"italic", "code", "image", "link", "final_nodes"}

\* The type the pass that has just completed gives to the spans it makes.
TypeMade ==
    CASE pc = "italic" -> "bold"
      [] pc = "code" -> "italic"
      [] pc = "image" -> "code"
      [] pc = "link" -> "image"
      [] pc = "final_nodes" -> "link"

NonPlain(node) == node.text_type # "text"

\* C22: in every pass of text_to_textnodes that completes, the non-plain
\* spans of the input are the spans of the output that the pass did not
\* make, unchanged in text, type and url and in the same order: the pass
\* splits or retypes no span already typed by an earlier pass.
C22_TypedSpansKept ==
    PassCompleted =>
        /\ \A i \in 1..Len(old_nodes) : old_nodes[i].text_type # TypeMade
        /\ SelectSeq(nodes, LAMBDA node : node.text_type \notin {"text", TypeMade})
              = SelectSeq(old_nodes, NonPlain)

\* A bold span holding two underscores came through the italic pass.
C22_Witness ==
    /\ pc = "code"
    /\ \E i \in 1..Len(old_nodes) :
          /\ old_nodes[i].text_type = "bold"
          /\ Occurrences(old_nodes[i].text, ItalicDelimiter) # {}
          /\ \E j \in 1..Len(nodes) : nodes[j] = old_nodes[i]

\* C23: every span text_to_textnodes returns carries a url exactly when its
\* type is Link or Image; a Plain, Bold, Italic or Code span carries none.
C23_UrlOnLinksAndImages ==
    pc = "final_nodes" =>
        \A i \in 1..Len(nodes) :
            (nodes[i].url # None) <=> (nodes[i].text_type \in {"link", "image"})

\* An image, a link and a plain span were returned together.
C23_Witness ==
    /\ pc = "final_nodes"
    /\ \E i, j, k \in 1..Len(nodes) :
          /\ nodes[i].text_type = "image" /\ nodes[i].url # None
          /\ nodes[j].text_type = "link" /\ nodes[j].url # None
          /\ nodes[k].text_type = "text" /\ nodes[k].url = None

\* The Markdown a span of the image or link pass is written back as: a plain
\* span as its text, an Image as an exclamation mark, the alt text in
\* square brackets and the url in parentheses, a Link as the same without
\* the exclamation mark.
WrittenBack(node) ==
    CASE node.text_type = "image" ->
            <<"!", "[">> \o node.text \o <<"]", "(">> \o Get(node.url) \o <<")">>
      [] node.text_type = "link" ->
            <<"[">> \o node.text \o <<"]", "(">> \o Get(node.url) \o <<")">>
      [] OTHER -> node.text

\* C30: the image pass and the link pass lose no text: writing the spans
\* they return for a plain input span back as Markdown, in order,
\* reproduces the text of the input span.
C30_NoTextLost ==
    (pc \in {"split_nodes_image returned", "split_nodes_link returned"}
        /\ old_nodes[1].text_type = "text") =>
        Flatten([i \in 1..Len(nodes) |-> WrittenBack(nodes[i])]) = old_nodes[1].text

\* The link pass returned text before a link, the link, and text after it.
C30_Witness ==
    /\ pc = "split_nodes_link returned"
    /\ old_nodes[1].text_type = "text"
    /\ Len(nodes) = 3
    /\ nodes[1].text_type = "text"
    /\ nodes[2].text_type = "link"
    /\ nodes[3].text_type = "text"

-----------------------------------------------------------------------------
(* props_to_html called on its own *)

\* The most attributes a node of PropsInputs has.
MaxProps == 2

PropNames == {<<"h", "r", "e", "f">>, <<"i", "d">>, <<"s", "r", "c">>}

PropValues == {None, Some(<<>>), Some(<<"u">>)}

\* The dicts of up to MaxProps attributes, as sequences of pairs of distinct
\* names in insertion order, and no dict at all.
PropsInputs ==
    {None} \cup
    {Some(d) : d \in {d \in UNION {[1..k -> PropNames \X PropValues] :
                                      k \in 0..MaxProps} :
                         \A i, j \in 1..Len(d) : d[i][1] = d[j][1] => i = j}}

\* node.props_to_html() is called on a leaf or a parent.
InitProps ==
    /\ pc = "props_to_html"
    /\ markdown_document = <<>>
    /\ markdown_blocks = <<>>
    /\ children = <<>>
    /\ \E props \in PropsInputs :
          \/ html_node = Some(LeafNode(Some(<<"a">>), Some(<<"t">>), props))
          \/ html_node = Some(ParentNode(Some(<<"p">>), Some(<<>>), props))
    /\ html = None
    /\ markdown_block = <<>>
    /\ block_type = ""
    /\ text = <<>>
    /\ old_nodes = <<>>
    /\ nodes = <<>>
    /\ textnode = None
    /\ title = None
    /\ invocations = <<>>
    /\ error = ""

\* html = node.props_to_html()
CallPropsToHtml ==
    /\ pc = "props_to_html"
    /\ html' = Some(props_to_html(Get(html_node)))
    /\ pc' = "props_to_html returned"
    /\ UNCHANGED <<invocations, markdown_document, markdown_blocks, children, html_node,
                   markdown_block, block_type, text, old_nodes, nodes,
                   textnode, title, error>>

\* node.props_to_html() is called once more on the same node.
CallPropsToHtmlAgain ==
    /\ pc = "props_to_html returned"
    /\ html' = Some(props_to_html(Get(html_node)))
    /\ pc' = "props_to_html returned again"
    /\ UNCHANGED <<invocations, markdown_document, markdown_blocks, children, html_node,
                   markdown_block, block_type, text, old_nodes, nodes,
                   textnode, title, error>>

NextProps == CallPropsToHtml \/ CallPropsToHtmlAgain

SpecProps == InitProps /\ [][NextProps]_vars

\* What an attribute value is written as: a string as itself, None as the
\* four letters of its name.
ValueWritten(v) == IF v = None THEN <<"N", "o", "n", "e">> ELSE v[1]

RECURSIVE AttributesWritten(_)
\* A space, the name, an equals sign and the value in double quotes for
\* each attribute of the dict d, in the dict's order.
AttributesWritten(d) ==
    IF d = <<>> THEN <<>>
    ELSE <<" ">> \o d[1][1] \o <<"=", "\"">> \o ValueWritten(d[1][2]) \o <<"\"">>
             \o AttributesWritten(Tail(d))

\* C24: props_to_html returns the empty string for a node without
\* attributes (no dict, or an empty one); otherwise it returns, for each
\* attribute once and in the dict's order, a space, the name, an equals
\* sign and the value in double quotes; a second call on the same node
\* returns the same string.
C24_PropsToHtml ==
    /\ [](pc \in {"props_to_html returned", "props_to_html returned again"} =>
            html = Some(IF Get(html_node).props = None THEN <<>>
                        ELSE AttributesWritten(Get(Get(html_node).props))))
    /\ [][pc = "props_to_html returned" => html' = html]_vars

\* Two attributes were written, and written again by a second call.
C24_Witness ==
    /\ pc = "props_to_html returned again"
    /\ Get(html_node).props # None
    /\ Len(Get(Get(html_node).props)) = 2
    /\ Get(html) # <<>>

-----------------------------------------------------------------------------
(* markdown_to_html_node on documents of every kind of block *)

\* Documents of one block of BlockInputs, and of two one-line blocks with a
\* blank line between them: headings, fences, quotes, lists and their near
\* misses.
BlockDocuments ==
    BlockInputs \cup {a \o <<NL, NL>> \o b : a, b \in Lines}

\* markdown_to_html_node(markdown_document) is called, and to_html on the
\* tree it returns.
InitBlockDocument ==
    /\ pc = "markdown_to_blocks"
    /\ markdown_document \in BlockDocuments
    /\ markdown_blocks = <<>>
    /\ children = <<>>
    /\ html_node = None
    /\ html = None
    /\ markdown_block = <<>>
    /\ block_type = ""
    /\ text = <<>>
    /\ old_nodes = <<>>
    /\ nodes = <<>>
    /\ textnode = None
    /\ title = None
    /\ invocations = <<>>
    /\ error = ""

SpecBlockDocument == InitBlockDocument /\ [][Next]_vars

\* The errors the block converters raise on a block that is not of their
\* type, and the errors of indexing past a list's end.
DefensiveErrors ==
    {"invalid heading", "invalid code block", "invalid unordered list line",
     "invalid ordered list line", "invalid quote block", "invalid block type",
     "IndexError"}

\* C26: the only error markdown_to_html_node raises is the inline
\* tokenizer's error of an unbalanced delimiter; none of the defensive
\* errors of the block converters is raised on a block that
\* markdown_to_blocks made and block_to_block_type classified.
C26_OnlyTokenizerError ==
    /\ error \notin DefensiveErrors
    /\ (pc = "raised" /\ html_node = None) =>
          error = "invalid Markdown syntax."

\* markdown_to_html_node raised on an unbalanced delimiter in a list item
\* that follows a well-formed item.
C26_Witness ==
    /\ pc = "raised"
    /\ html_node = None
    /\ error = "invalid Markdown syntax."
    /\ \E i \in 1..Len(markdown_blocks) :
          /\ block_to_block_type(markdown_blocks[i]) = "unordered_list"
          /\ i = 2
          /\ Len(children) = 1

-----------------------------------------------------------------------------
(* Fences and blank lines *)

Fence == <<BT, BT, BT>>

\* The block reads a fence at its start and holds no second fence.
OpeningFenceOnly(block) ==
    Begins(block, Fence) /\ Cardinality(Occurrences(block, Fence)) = 1

\* The document is a fenced block cut by a blank line: segmented into two or
\* more blocks, the first reading the opening fence at its start and
\* holding no other fence, the last reading the closing fence at its end.
FencedAcrossBlankLine ==
    /\ Len(markdown_blocks) >= 2
    /\ OpeningFenceOnly(markdown_blocks[1])
    /\ Ends(markdown_blocks[Len(markdown_blocks)], Fence)

\* C28: a fenced code block with a blank line in its body is never compiled
\* as one Code block: no block markdown_to_blocks returns holds a blank
\* line, and the fragment that holds only the opening fence is classified
\* as a Paragraph and compiled as one.
C28_FenceSplitAtBlankLine ==
    Segmented =>
        /\ \A i \in 1..Len(markdown_blocks) :
              Occurrences(markdown_blocks[i], <<NL, NL>>) = {}
        /\ FencedAcrossBlankLine =>
              /\ block_to_block_type(markdown_blocks[1]) = "paragraph"
              /\ Len(children) >= 1 => children[1].tag = Some(<<"p">>)

RECURSIVE Rejoined(_)
\* The blocks written one after another with a blank line between them.
Rejoined(blocks) ==
    IF blocks = <<>> THEN <<>>
    ELSE IF Len(blocks) = 1 THEN blocks[1]
    ELSE blocks[1] \o <<NL, NL>> \o Rejoined(Tail(blocks))

\* C29: segmenting is idempotent over its own output: every block
\* markdown_to_blocks returns is non-empty, has no whitespace at either end
\* and holds no blank line, and the blocks joined with a blank line segment
\* into the same sequence of blocks.
C29_SegmentingIdempotent ==
    Segmented =>
        /\ \A i \in 1..Len(markdown_blocks) :
              /\ markdown_blocks[i] # <<>>
              /\ markdown_blocks[i][1] \notin Whitespace
              /\ markdown_blocks[i][Len(markdown_blocks[i])] \notin Whitespace
              /\ Occurrences(markdown_blocks[i], <<NL, NL>>) = {}
        /\ markdown_to_blocks(Rejoined(markdown_blocks)) = markdown_blocks

\* A document that is not its blocks joined with a blank line (it has
\* whitespace that segmenting dropped) was segmented into two blocks, one
\* of them of two lines.
C29_Witness ==
    /\ Segmented
    /\ Len(markdown_blocks) = 2
    /\ Rejoined(markdown_blocks) # markdown_document
    /\ \E i \in 1..2 : Occurrences(markdown_blocks[i], <<NL>>) # {}

-----------------------------------------------------------------------------
(* Concurrent invocations of markdown_to_html_node and to_html *)

\* The number of invocations that run interleaved.
NumInvocations == 2

Invocations == 1..NumInvocations

\* The documents the invocations compile: empty, of one block, of two and
\* of three blocks, and with an unbalanced delimiter in the first or in the
\* second block.
ConcurrentDocuments ==
    {<<>>,
     <<"a">>,
     <<"_">>,
     <<"#", " ", "a", NL, NL, "a">>,
     <<"a", NL, NL, "_">>,
     <<"a", NL, NL, "-", " ", "a", NL, NL, BT, BT, BT, NL, "a", BT, BT, BT>>}

\* The variables of the single call, which the concurrent invocations leave
\* alone.
single == <<pc, markdown_document, markdown_blocks, children, html_node, html,
            markdown_block, block_type, text, old_nodes, nodes, textnode,
            title, error>>

\* The locals of one invocation of markdown_to_html_node(markdown_document)
\* followed by to_html, at its call; at is the number of blocks the for
\* loop has taken.
frame(document) ==
    [pc |-> "markdown_to_blocks", markdown_document |-> document,
     markdown_blocks |-> <<>>, at |-> 0, children |-> <<>>,
     html_node |-> None, html |-> None, error |-> ""]

\* children_of with one list for all the invocations, as a list made once
\* at module level would be.
children_of_shared(i) == 1

\* The invocation whose list the name children of invocation i is bound to:
\* children = [] makes a new list in each invocation.
children_of(i) == i

InitConcurrent ==
    /\ invocations \in [Invocations -> {frame(d) : d \in ConcurrentDocuments}]
    /\ pc = "invocations"
    /\ markdown_document = <<>>
    /\ markdown_blocks = <<>>
    /\ children = <<>>
    /\ html_node = None
    /\ html = None
    /\ markdown_block = <<>>
    /\ block_type = ""
    /\ text = <<>>
    /\ old_nodes = <<>>
    /\ nodes = <<>>
    /\ textnode = None
    /\ title = None
    /\ error = ""

\* An invocation runs markdown_blocks = markdown_to_blocks(markdown_document)
\* and children = [].
ConcurrentSplitBlocks ==
    \E i \in Invocations :
        /\ invocations[i].pc = "markdown_to_blocks"
        /\ invocations' =
              [invocations EXCEPT
                  ![i].markdown_blocks =
                      markdown_to_blocks(invocations[i].markdown_document),
                  ![i].pc = "for markdown_block",
                  ![children_of(i)].children = <<>>]
        /\ UNCHANGED single

\* An invocation runs one turn of its loop:
\* children.append(block_to_html_node(markdown_block)).
ConcurrentConvertBlock ==
    \E i \in Invocations :
        /\ invocations[i].pc = "for markdown_block"
        /\ invocations[i].at < Len(invocations[i].markdown_blocks)
        /\ invocations' =
              IF block_to_html_node(
                     invocations[i].markdown_blocks[invocations[i].at + 1]).ok
              THEN [invocations EXCEPT
                       ![i].at = @ + 1,
                       ![children_of(i)].children =
                           Append(@, block_to_html_node(
                               invocations[i].markdown_blocks[
                                   invocations[i].at + 1]).val)]
              ELSE [invocations EXCEPT
                       ![i].pc = "raised",
                       ![i].error = block_to_html_node(
                           invocations[i].markdown_blocks[
                               invocations[i].at + 1]).err]
        /\ UNCHANGED single

\* An invocation runs return ParentNode("div", children).
ConcurrentReturnDiv ==
    \E i \in Invocations :
        /\ invocations[i].pc = "for markdown_block"
        /\ invocations[i].at = Len(invocations[i].markdown_blocks)
        /\ invocations' =
              [invocations EXCEPT
                  ![i].html_node =
                      Some(ParentNode(Some(<<"d", "i", "v">>),
                                      Some(invocations[children_of(i)].children),
                                      None)),
                  ![i].pc = "returned"]
        /\ UNCHANGED single

\* An invocation runs to_html on the tree it returned.
ConcurrentRender ==
    \E i \in Invocations :
        /\ invocations[i].pc = "returned"
        /\ invocations' =
              IF to_html(Get(invocations[i].html_node)).ok
              THEN [invocations EXCEPT
                       ![i].html = Some(to_html(Get(invocations[i].html_node)).val),
                       ![i].pc = "rendered"]
              ELSE [invocations EXCEPT
                       ![i].pc = "raised",
                       ![i].error = to_html(Get(invocations[i].html_node)).err]
        /\ UNCHANGED single

NextConcurrent ==
    \/ ConcurrentSplitBlocks
    \/ ConcurrentConvertBlock
    \/ ConcurrentReturnDiv
    \/ ConcurrentRender

SpecConcurrent == InitConcurrent /\ [][NextConcurrent]_vars

\* The tree markdown_to_html_node returns for a document when it runs
\* alone, or the error it raises.
TreeAlone(document) ==
    LET blocks == markdown_to_blocks(document)
        compiled == collect([k \in 1..Len(blocks) |-> block_to_html_node(blocks[k])])
    IN IF compiled.ok
       THEN Ok(ParentNode(Some(<<"d", "i", "v">>), Some(compiled.val), None))
       ELSE compiled

====
